---- MODULE Spec2Model ----
(***************************************************************************)
(* Model of the OpenDKIM charm (src/src/charm.py): the event handlers      *)
(* _install and _reconcile, the configuration validation of                *)
(* OpenDKIMConfig.from_charm, the file helpers read_text / render_file and *)
(* the external validation validate_opendkim.                              *)
(*                                                                         *)
(* Python strings are TLA+ strings (TLC evaluates \o, Len and SubSeq on    *)
(* them), so messages and file contents are the texts the code builds.     *)
(* One action is one hook execution: the framework runs one handler to     *)
(* completion before the next event is delivered.                          *)
(***************************************************************************)
EXTENDS Integers, Sequences, FiniteSets, TLC

(***************************************************************************)
(* Bounds of the model.                                                    *)
(***************************************************************************)
\* Number of hooks (events handled) in one behaviour.
MaxHooks == 4
\* Number of lines of a logrotate file given to update_logrotate_conf.
MaxLines == 3
\* Number of successive applications of update_logrotate_conf.
MaxUpdates == 2

(***************************************************************************)
(* Program constants.                                                      *)
(***************************************************************************)
OPENDKIM_PACKAGE_NAME == "opendkim"
OPENDKIM_MILTER_PORT == 8892
OPENDKIM_CONFIG_PATH == "/etc/opendkim.conf"
OPENDKIM_KEYS_PATH == "/etc/dkimkeys"
OPENDKIM_SIGNINGTABLE_PATH == OPENDKIM_KEYS_PATH \o "/signingtable"
OPENDKIM_KEYTABLE_PATH == OPENDKIM_KEYS_PATH \o "/keytable"
OPENDKIM_USER == "opendkim"
LOG_ROTATE_SYSLOG == "/etc/logrotate.d/rsyslog"
LOG_RETENTION_DAYS == 120
\* 0o600 and 0o644
KeyFileMode == 384
ConfFileMode == 420
MILTER_RELATION_NAME == "milter"
DEFAULT_SIGN_HEADERS ==
    "From,Reply-To,Subject,Date,To,Cc"
    \o ",Resent-From,Resent-Date,Resent-To,Resent-Cc"
    \o ",In-Reply-To,References"
    \o ",MIME-Version,Message-ID,Content-Type"

(***************************************************************************)
(* String helpers (str.join, substring test).                              *)
(***************************************************************************)
RECURSIVE Join(_, _)
\* sep.join(parts)
Join(sep, parts) ==
    IF Len(parts) = 0 THEN ""
    ELSE IF Len(parts) = 1 THEN parts[1]
    ELSE parts[1] \o sep \o Join(sep, Tail(parts))

\* sub in s
Contains(s, sub) ==
    \E i \in 1..(Len(s) + 1 - Len(sub)) : SubSeq(s, i, i + Len(sub) - 1) = sub

\* str.replace(sub, ""): every occurrence of sub is removed
RECURSIVE RemoveAll(_, _)
RemoveAll(s, sub) ==
    IF Len(s) < Len(sub) \/ Len(sub) = 0 THEN s
    ELSE IF SubSeq(s, 1, Len(sub)) = sub
         THEN RemoveAll(SubSeq(s, Len(sub) + 1, Len(s)), sub)
         ELSE SubSeq(s, 1, 1) \o RemoveAll(SubSeq(s, 2, Len(s)), sub)

(***************************************************************************)
(* Charm configuration.  A YAML option is the kind of its text (not set,   *)
(* the empty string, text that yaml.safe_load rejects, or text that loads) *)
(* and, when it loads, the document it loads to: a scalar string or a list *)
(* of rows, each row a list of strings.                                    *)
(***************************************************************************)
NoDoc == [type |-> "none", rows |-> <<>>]
ScalarDoc == [type |-> "str", rows |-> <<>>]
ListDoc(rows) == [type |-> "list", rows |-> rows]

OptUnset == [kind |-> "unset", doc |-> NoDoc]
OptEmpty == [kind |-> "empty", doc |-> NoDoc]
OptBadYaml == [kind |-> "badyaml", doc |-> NoDoc]
OptYaml(doc) == [kind |-> "yaml", doc |-> doc]

\* Rows of the signing table and of the key table used as inputs.
SigRow(i) == << "*@d" \o ToString(i) \o ".com", "sel._domainkey.d" \o ToString(i) \o ".com" >>
KeyRow(i) == << "sel._domainkey.d" \o ToString(i) \o ".com",
                "d" \o ToString(i) \o ".com:sel:" \o OPENDKIM_KEYS_PATH \o "/key" \o ToString(i) \o ".private" >>

\* The well-formed tables: of one row and of two rows.
SigTables == { << SigRow(1) >>, << SigRow(1), SigRow(2) >> }
KeyTables == { << KeyRow(1) >>, << KeyRow(1), KeyRow(2) >> }

\* The secret the private-keys option refers to, and the values of the option
\* (not set, or the secret's URI).
SecretId == "s1"

\* Contents of the secret: a dict of key name -> private key, in dict order.
KeyEntry(n, v) == [name |-> n, value |-> v]
SecretContents ==
    { << KeyEntry("key1", "PEM1"), KeyEntry("key2", "PEM2") >>,
      << KeyEntry("key1", "PEM1-rotated") >> }

Config(st, kt, pk) == [signingtable |-> st, keytable |-> kt, private_keys |-> pk]
SecretRef == "secret:" \o SecretId

\* The valid configurations: well-formed tables and the secret's URI.
ValidConfigs ==
    { Config(OptYaml(ListDoc(st)), OptYaml(ListDoc(kt)), SecretRef) :
        st \in SigTables, kt \in KeyTables }

\* Configurations whose three options are all missing or unparseable.
AllMissingConfigs ==
    { Config(st, kt, "") : st \in {OptUnset, OptBadYaml}, kt \in {OptEmpty, OptBadYaml} }

\* Configurations with a YAML scalar where a table is expected, alone or
\* next to an option that is missing, and one with only the secret missing.
WrongShapeConfigs ==
    { Config(OptYaml(ScalarDoc), OptYaml(ScalarDoc), SecretRef),
      Config(OptUnset, OptYaml(ScalarDoc), SecretRef),
      Config(OptYaml(ScalarDoc), OptYaml(ListDoc(<< KeyRow(1) >>)), SecretRef),
      Config(OptYaml(ListDoc(<< << "*@d1.com" >> >>)), OptYaml(ListDoc(<< KeyRow(1) >>)), SecretRef),
      Config(OptYaml(ListDoc(<< SigRow(1) >>)), OptYaml(ListDoc(<< KeyRow(1) >>)), "") }

\* A configuration whose signing table is the YAML document "[]".
EmptyTableConfigs ==
    { Config(OptYaml(ListDoc(<< >>)), OptYaml(ListDoc(<< KeyRow(1) >>)), SecretRef) }

Configs == ValidConfigs \cup AllMissingConfigs \cup WrongShapeConfigs \cup EmptyTableConfigs

(***************************************************************************)
(* _parse_yaml_config_option                                               *)
(***************************************************************************)
\* not config_value: None or the empty string
OptionIsFalsy(config_value) == config_value.kind \in {"unset", "empty"}

ParseYamlConfigOption(config_data, config_name) ==
    LET config_value == config_data[config_name] IN
    IF OptionIsFalsy(config_value)
    THEN [ok |-> FALSE, error |-> "empty " \o config_name \o " configuration", value |-> NoDoc]
    ELSE IF config_value.kind = "badyaml"
    THEN [ok |-> FALSE, error |-> "wrong " \o config_name \o " format", value |-> NoDoc]
    ELSE [ok |-> TRUE, error |-> "", value |-> config_value.doc]

(***************************************************************************)
(* OpenDKIMConfig: the pydantic model.  SchemaErrors lists the loc of each *)
(* validation error, in field order, as get_invalid_config_fields joins    *)
(* it ("-".join of the loc items; list indices are 0-based).               *)
(***************************************************************************)
\* signingtable: list[Tuple[str, str]]
RECURSIVE SigRowErrors(_, _)
SigRowErrors(rows, i) ==
    IF i > Len(rows) THEN <<>>
    ELSE LET idx == ToString(i - 1)
             here == IF Len(rows[i]) = 2 THEN <<>>
                     ELSE IF Len(rows[i]) > 2 THEN << "signingtable-" \o idx >>
                     ELSE IF Len(rows[i]) = 1 THEN << "signingtable-" \o idx \o "-1" >>
                     ELSE << "signingtable-" \o idx \o "-0", "signingtable-" \o idx \o "-1" >>
         IN here \o SigRowErrors(rows, i + 1)

SigErrors(doc) ==
    IF doc.type # "list" THEN << "signingtable" >> ELSE SigRowErrors(doc.rows, 1)

\* keytable: list[list[str]]
KeyErrors(doc) ==
    IF doc.type # "list" THEN << "keytable" >> ELSE <<>>

\* get_invalid_config_fields(exc) for cls(signingtable=, keytable=, private_keys=)
GetInvalidConfigFields(signingtable, keytable) ==
    SigErrors(signingtable) \o KeyErrors(keytable)

\* The validated configuration, with the defaults of the model's fields.
OpenDKIMConfig(signingtable, keytable, private_keys) ==
    [canonicalization |-> "relaxed/relaxed",
     socket |-> "inet:" \o ToString(OPENDKIM_MILTER_PORT),
     signheaders |-> DEFAULT_SIGN_HEADERS,
     internalhosts |-> "0.0.0.0/0",
     mode |-> "sv",
     signingtable |-> signingtable.rows,
     keytable |-> keytable.rows,
     private_keys |-> private_keys,
     signingtable_path |-> OPENDKIM_SIGNINGTABLE_PATH,
     keytable_path |-> OPENDKIM_KEYTABLE_PATH]

\* computed field signing_mode: "s" in self.mode
SigningMode(cfg) == Contains(cfg.mode, "s")

NoConfig == OpenDKIMConfig(NoDoc, NoDoc, <<>>)

(***************************************************************************)
(* OpenDKIMConfig.from_charm.  The result is the configuration, or the     *)
(* InvalidCharmConfigError with its message, or the exception that         *)
(* model.get_secret lets through (getSecretFails: the secret cannot be     *)
(* resolved).                                                              *)
(***************************************************************************)
\* Variant: only the first error is reported (fail-fast).
JoinErrorsFirst(errors) == errors[1]

\* " - ".join(errors)
JoinErrors(errors) == Join(" - ", errors)

\* the errors list built by the first three checks
FirstPassErrors(config_data) ==
    LET st == ParseYamlConfigOption(config_data, "signingtable")
        kt == ParseYamlConfigOption(config_data, "keytable")
    IN  (IF st.ok THEN <<>> ELSE << st.error >>)
        \o (IF kt.ok THEN <<>> ELSE << kt.error >>)
        \o (IF config_data.private_keys = "" THEN << "empty private-keys configuration" >> ELSE <<>>)

\* from_charm once both options are parsed (st, kt) and errors is built
FromParsed(st, kt, errors, private_keys_secret_id, secret_content, getSecretFails) ==
    IF Len(errors) > 0
    THEN [kind |-> "invalid", message |-> JoinErrors(errors), config |-> NoConfig]
    ELSE IF getSecretFails \/ RemoveAll(private_keys_secret_id, "secret:") # SecretId
    THEN [kind |-> "raise", message |-> "SecretNotFoundError", config |-> NoConfig]
    ELSE IF Len(GetInvalidConfigFields(st.value, kt.value)) > 0
    THEN [kind |-> "invalid",
          message |-> "wrong config options: "
                      \o Join(",", GetInvalidConfigFields(st.value, kt.value)) \o ".",
          config |-> NoConfig]
    ELSE [kind |-> "ok", message |-> "",
          config |-> OpenDKIMConfig(st.value, kt.value, secret_content)]

FromCharm(config_data, secret_content, getSecretFails) ==
    FromParsed(ParseYamlConfigOption(config_data, "signingtable"),
               ParseYamlConfigOption(config_data, "keytable"),
               FirstPassErrors(config_data),
               config_data.private_keys, secret_content, getSecretFails)

(***************************************************************************)
(* Files.  A file system maps each path to a file: whether it exists, its  *)
(* text, its permission bits and its owner.                                *)
(***************************************************************************)
KeyNames == {"key1", "key2"}
\* OPENDKIM_KEYS_PATH / f"{keyname}.private"
KeyFilePath(keyname) == OPENDKIM_KEYS_PATH \o "/" \o keyname \o ".private"
KeyFilePaths == { KeyFilePath(n) : n \in KeyNames }
ArtifactPaths ==
    KeyFilePaths \cup {OPENDKIM_SIGNINGTABLE_PATH, OPENDKIM_KEYTABLE_PATH, OPENDKIM_CONFIG_PATH}
Paths == ArtifactPaths \cup {LOG_ROTATE_SYSLOG}

NoFile == [exists |-> FALSE, content |-> "", mode |-> 0, owner |-> ""]
File(content, mode, owner) ==
    [exists |-> TRUE, content |-> content, mode |-> mode, owner |-> owner]

\* read_text: the text of the file, "" when there is no file
\* Variant: the previous content is never found.
ReadTextMissing(fs, path) == ""

\* The index of the first "\r" of s, 0 when there is none.
FirstCarriageReturn(s) ==
    LET at == { i \in 1..Len(s) : SubSeq(s, i, i) = "\r" }
    IN  IF at = {} THEN 0 ELSE CHOOSE i \in at : \A j \in at : i <= j

\* A file read in text mode (newline=None): "\r\n" and a lone "\r" are
\* read as "\n".
RECURSIVE UniversalNewlines(_)
UniversalNewlines(s) ==
    LET i == FirstCarriageReturn(s)
    IN  IF i = 0 THEN s
        ELSE SubSeq(s, 1, i - 1) \o "\n"
             \o UniversalNewlines(SubSeq(s, IF i < Len(s) /\ SubSeq(s, i + 1, i + 1) = "\n"
                                             THEN i + 2 ELSE i + 1, Len(s)))

ReadText(fs, path) == IF fs[path].exists THEN UniversalNewlines(fs[path].content) ELSE ""

\* render_file: write_text, chmod, chown
RenderFile(fs, path, content, mode, user) ==
    [fs EXCEPT ![path] = File(content, mode, user)]

(***************************************************************************)
(* utils.update_logrotate_conf                                             *)
(***************************************************************************)
\* The index of the first "\n" of s, 0 when there is none.
FirstNewline(s) ==
    LET at == { i \in 1..Len(s) : SubSeq(s, i, i) = "\n" }
    IN  IF at = {} THEN 0 ELSE CHOOSE i \in at : \A j \in at : i <= j

\* s.split("\n")
RECURSIVE SplitLines(_)
SplitLines(s) ==
    LET i == FirstNewline(s)
    IN  IF i = 0 THEN << s >>
        ELSE << SubSeq(s, 1, i - 1) >> \o SplitLines(SubSeq(s, i + 1, Len(s)))

StartsWith(s, prefix) == Len(s) >= Len(prefix) /\ SubSeq(s, 1, Len(prefix)) = prefix

\* The characters of the class \s that a string of this module can hold:
\* tab, newline, vertical tab, form feed, carriage return, the separators
\* U+001C to U+001F, space, U+0085, U+00A0 and U+1680.
Whitespace ==
    { "\t", "\n", "", "\f", "\r", "", "", "", "", " ", "", " ", " " }

\* \s
IsSpace(c) == c \in Whitespace
IndentLen(line) ==
    CHOOSE n \in 0..Len(line) :
        /\ \A i \in 1..n : IsSpace(SubSeq(line, i, i))
        /\ n < Len(line) => ~IsSpace(SubSeq(line, n + 1, n + 1))

LogrotateKeywords == {"daily", "weekly", "monthly", "rotate", "dateext"}

\* regex.match(line) for "^(\s+)(daily|weekly|monthly|rotate|dateext)"
LogrotateMatch(line) ==
    LET n == IndentLen(line)
        rest == SubSeq(line, n + 1, Len(line))
        kws == { kw \in LogrotateKeywords : StartsWith(rest, kw) }
    IN  IF n >= 1 /\ kws # {}
        THEN [matched |-> TRUE, indent |-> SubSeq(line, 1, n), conf |-> CHOOSE kw \in kws : TRUE]
        ELSE [matched |-> FALSE, indent |-> "", conf |-> ""]

\* Variant: the new frequency loses the indentation.
LogrotateLineUnindented(line, frequency, retention, dateext) ==
    IF ~LogrotateMatch(line).matched THEN << line >>
    ELSE IF frequency # "" /\ LogrotateMatch(line).conf \in {"daily", "weekly", "monthly"}
    THEN << frequency >>
    ELSE IF retention # 0 /\ LogrotateMatch(line).conf = "dateext"
    THEN <<>>
    ELSE IF retention # 0 /\ LogrotateMatch(line).conf = "rotate"
    THEN (IF dateext THEN << LogrotateMatch(line).indent \o "dateext" >> ELSE <<>>)
         \o << LogrotateMatch(line).indent \o "rotate " \o ToString(retention) >>
    ELSE << line >>

\* Variant: a dateext line already in the file is kept.
LogrotateLineKeepsDateext(line, frequency, retention, dateext) ==
    IF ~LogrotateMatch(line).matched THEN << line >>
    ELSE IF frequency # "" /\ LogrotateMatch(line).conf \in {"daily", "weekly", "monthly"}
    THEN << LogrotateMatch(line).indent \o frequency >>
    ELSE IF retention # 0 /\ LogrotateMatch(line).conf = "rotate"
    THEN (IF dateext THEN << LogrotateMatch(line).indent \o "dateext" >> ELSE <<>>)
         \o << LogrotateMatch(line).indent \o "rotate " \o ToString(retention) >>
    ELSE << line >>

\* The lines one line of the file becomes (frequency "" is None).
LogrotateLine(line, frequency, retention, dateext) ==
    LET m == LogrotateMatch(line)
    IN  IF ~m.matched THEN << line >>
        ELSE IF frequency # "" /\ m.conf \in {"daily", "weekly", "monthly"}
        THEN << m.indent \o frequency >>
        ELSE IF retention # 0 /\ m.conf = "dateext"
        THEN <<>>
        ELSE IF retention # 0 /\ m.conf = "rotate"
        THEN (IF dateext THEN << m.indent \o "dateext" >> ELSE <<>>)
             \o << m.indent \o "rotate " \o ToString(retention) >>
        ELSE << line >>

RECURSIVE LogrotateLines(_, _, _, _)
LogrotateLines(lines, frequency, retention, dateext) ==
    IF Len(lines) = 0 THEN <<>>
    ELSE LogrotateLine(Head(lines), frequency, retention, dateext)
         \o LogrotateLines(Tail(lines), frequency, retention, dateext)

UpdateLogrotateConf(fs, path, frequency, retention, dateext) ==
    IF ~fs[path].exists THEN ""
    ELSE Join("\n", LogrotateLines(SplitLines(UniversalNewlines(fs[path].content)),
                                    frequency, retention, dateext))

(***************************************************************************)
(* Rendering.                                                              *)
(***************************************************************************)
\* Variant: every line ends with a newline.
TableTextTrailing(table) ==
    Join("", [i \in 1..Len(table) |-> Join(" ", table[i]) \o "\n"])

\* "\n".join(" ".join(row) for row in table)
TableText(table) == Join("\n", [i \in 1..Len(table) |-> Join(" ", table[i])])

\* config.model_dump(): the fields and the computed field signing_mode
ModelDump(cfg) == [signing_mode |-> SigningMode(cfg)] @@ cfg

\* templates/opendkim.conf.j2 rendered with the context: the scalar fields of
\* the configuration substituted into a fixed text.
RenderTemplate(context) ==
    "Syslog yes\n"
    \o "Canonicalization " \o context.canonicalization \o "\n"
    \o "Mode " \o context.mode \o "\n"
    \o "SignHeaders " \o context.signheaders \o "\n"
    \o "InternalHosts " \o context.internalhosts \o "\n"
    \o (IF context.signing_mode
        THEN "KeyTable file:" \o context.keytable_path \o "\n"
             \o "SigningTable refile:" \o context.signingtable_path \o "\n"
        ELSE "")
    \o "Socket " \o context.socket \o "\n"

\* rendered != previous_rendered
\* Variant: the primary configuration is never seen to differ.
DriftNever(rendered, previous_rendered) == FALSE

\* Variant: the service is restarted in every cycle.
DriftAlways(rendered, previous_rendered) == TRUE

Drift(rendered, previous_rendered) == rendered # previous_rendered

(***************************************************************************)
(* Relations and status.                                                   *)
(***************************************************************************)
\* The relation ids the milter endpoint may have.
RelationIds == {1, 2}
\* The local unit databag of a relation: the value of its key "port", ""
\* when the key is not set.
EmptyData == [port |-> ""]

\* not milter_relations
\* Variant: the relation check is inverted.
NoMilterRelationsInverted(milter_relations) == milter_relations # {}

NoMilterRelations(milter_relations) == milter_relations = {}

\* str(OPENDKIM_MILTER_PORT)
PortValue == ToString(OPENDKIM_MILTER_PORT)

\* Variant: the port is set on one relation only.
PublishPortOne(rd, milter_relations) ==
    IF milter_relations = {} THEN rd
    ELSE [rd EXCEPT ![CHOOSE r \in milter_relations : TRUE].port = ToString(OPENDKIM_MILTER_PORT)]

\* milter_relation.data[self.model.unit]["port"] = ... for each relation
PublishPort(rd, milter_relations) ==
    [r \in DOMAIN rd |-> IF r \in milter_relations THEN [rd[r] EXCEPT !.port = PortValue] ELSE rd[r]]

Status(name, message) == [name |-> name, message |-> message]
UnknownStatus == Status("unknown", "")
MaintenanceStatus(message) == Status("maintenance", message)
BlockedStatus(message) == Status("blocked", message)
ActiveStatus == Status("active", "")

(***************************************************************************)
(* validate_opendkim: opendkim-testkey exits 0, exits non-zero, or runs    *)
(* past the timeout.  subprocess.run raises CalledProcessError for a       *)
(* non-zero exit and subprocess.TimeoutExpired on expiry; the handler      *)
(* catches CalledProcessError and the builtin TimeoutError, which          *)
(* TimeoutExpired is not a subclass of.                                    *)
(***************************************************************************)
ToolOutcomes == {"exit0", "nonzero", "timeout"}

\* The key files the key table on disk refers to (the last field of an
\* entry is domain:selector:path).
KeyFilesReferenced(fs) ==
    { p \in KeyFilePaths : Contains(ReadText(fs, OPENDKIM_KEYTABLE_PATH), ":" \o p) }

\* What opendkim-testkey can answer on the file system fs: it does not exit
\* 0 when the key table refers to a key file that does not exist.
ToolResults(fs) ==
    IF \E p \in KeyFilesReferenced(fs) : ~fs[p].exists
    THEN ToolOutcomes \ {"exit0"}
    ELSE ToolOutcomes

\* What opendkim-testkey prints when it fails; the charm does not capture
\* the output of the command.
ToolDetail(tool) ==
    IF tool = "nonzero" THEN "opendkim-testkey: key not secure"
    ELSE IF tool = "timeout" THEN "opendkim-testkey: no answer"
    ELSE ""

\* Variant: the ValueError carries the output of the command.
ValidateOpendkimDetail(tool) ==
    IF tool = "exit0" THEN [raised |-> "", message |-> ""]
    ELSE IF tool = "nonzero" THEN [raised |-> "ValueError", message |-> ToolDetail(tool)]
    ELSE [raised |-> "TimeoutExpired", message |-> "Command timed out after 100 seconds"]

\* Variant: the exit status test is inverted.
ValidateOpendkimInverted(tool) ==
    IF tool = "nonzero" THEN [raised |-> "", message |-> ""]
    ELSE [raised |-> "ValueError", message |-> "Wrong opendkim configuration. See logs"]

ValidateOpendkim(tool) ==
    IF tool = "exit0" THEN [raised |-> "", message |-> ""]
    ELSE IF tool = "nonzero"
    THEN [raised |-> "ValueError", message |-> "Wrong opendkim configuration. See logs"]
    ELSE [raised |-> "TimeoutExpired", message |-> "Command timed out after 100 seconds"]

(***************************************************************************)
(* Collaborator failures.  A fault names the one call of a hook execution  *)
(* that raises: model.get_secret, apt.add_package, the write of one path,  *)
(* systemd.service_restart or systemd.service_reload.  None of these       *)
(* exceptions is caught by the charm: the hook ends with the exception and *)
(* the statements after the failing call do not run.  render_file fails in *)
(* one of its steps: "open" (write_text cannot open the file: nothing is   *)
(* changed), "write_text" (the file was opened, so created or truncated,   *)
(* and the write raised after the operating system accepted a part of the  *)
(* text: file size limit, full disk), "chmod" (the text is written, the    *)
(* mode is not set), "getpwnam" (the text and the mode are set, the user   *)
(* does not exist: KeyError) or "chown" (the text and the mode are set,    *)
(* the change of owner is refused).                                        *)
(***************************************************************************)
WriteFault(step, path) == step \o ":" \o path
WriteSteps == {"open", "write_text", "chmod", "getpwnam", "chown"}

\* The number of bytes the operating system accepts of a text whose write
\* raises.  The texts of the model are ASCII: a character is a byte.
AcceptedSizes == {0, 3}
\* The fault of a write_text of which the operating system accepts so many
\* bytes and no more.
WriteTextFault(accepted, path) ==
    WriteFault("write_text", ToString(accepted) \o ":" \o path)

InstallFaults ==
    {"none", "apt",
     WriteFault("open", LOG_ROTATE_SYSLOG)}
    \cup { WriteTextFault(n, LOG_ROTATE_SYSLOG) : n \in AcceptedSizes }

ReconcileFaults ==
    {"none", "get_secret", "restart", "reload",
     WriteFault("open", KeyFilePath("key1")),
     WriteFault("chmod", KeyFilePath("key1")),
     WriteFault("getpwnam", KeyFilePath("key1")),
     WriteFault("chown", KeyFilePath("key1")),
     WriteFault("open", OPENDKIM_CONFIG_PATH)}
    \cup { WriteTextFault(n, KeyFilePath("key1")) : n \in AcceptedSizes }
    \cup { WriteTextFault(n, OPENDKIM_CONFIG_PATH) : n \in AcceptedSizes \ {0} }

Op(o, a) == [op |-> o, arg |-> a]

\* The calls a hook makes on its collaborators, as values.
WriteCall(path, content, mode, user) ==
    [call |-> "write", path |-> path, content |-> content, mode |-> mode, user |-> user]
SystemdCall(command) ==
    [call |-> command, path |-> "opendkim", content |-> "", mode |-> 0, user |-> ""]
AptCall(package) ==
    [call |-> "apt", path |-> package, content |-> "", mode |-> 0, user |-> ""]
\* The step of render_file that raises under the fault, "" when none does.
\* A write_text of which the operating system accepts the whole text does
\* not raise.
FailingStep(c, fault) ==
    IF \E n \in AcceptedSizes : fault = WriteTextFault(n, c.path) /\ n < Len(c.content)
    THEN "write_text"
    ELSE IF \E step \in WriteSteps \ {"write_text"} : fault = WriteFault(step, c.path)
    THEN CHOOSE step \in WriteSteps \ {"write_text"} : fault = WriteFault(step, c.path)
    ELSE ""

\* The call raises under the fault.
CallFails(c, fault) ==
    IF c.call = "write" THEN FailingStep(c, fault) # ""
    ELSE fault = c.call

\* The exception a failing call raises: pwd.getpwnam raises KeyError, the
\* file system OSError.
ExceptionOf(c, fault) ==
    IF c.call = "write"
    THEN (IF FailingStep(c, fault) = "getpwnam" THEN "KeyError" ELSE "OSError")
    ELSE IF c.call = "apt" THEN "PackageError"
    ELSE "SystemdError"

\* A file that open() creates: mode 0o666 less the umask 0o022, owned by root,
\* the user the charm runs as.
NewFileMode == 420
ProcessUser == "root"

\* The text a write_text that raised left in the file: what the operating
\* system accepted before it refused.
WrittenBeforeError(content, fault, path) ==
    SubSeq(content, 1, CHOOSE n \in AcceptedSizes : fault = WriteTextFault(n, path))

\* The file a render_file that raised leaves.
FailedWrite(file, c, fault) ==
    LET step == FailingStep(c, fault)
        oldMode == IF file.exists THEN file.mode ELSE NewFileMode
        oldOwner == IF file.exists THEN file.owner ELSE ProcessUser
    IN  IF step = "write_text"
        THEN File(WrittenBeforeError(c.content, fault, c.path), oldMode, oldOwner)
        ELSE IF step = "chmod"
        THEN File(c.content, oldMode, oldOwner)
        ELSE IF step \in {"getpwnam", "chown"}
        THEN File(c.content, c.mode, oldOwner)
        ELSE file

\* Variant: a key file that is already on disk is not written again.
FilesAfterKeepsKeys(fs, calls, n) ==
    [p \in DOMAIN fs |->
        LET writes == { i \in 1..n : calls[i].call = "write" /\ calls[i].path = p }
            w == CHOOSE i \in writes : \A j \in writes : j <= i
        IN  IF writes = {} \/ (p \in KeyFilePaths /\ fs[p].exists) THEN fs[p]
            ELSE File(calls[w].content, calls[w].mode, calls[w].user)]

\* Variant: a write adds to the text the file holds.
FilesAfterAppends(fs, calls, n) ==
    [p \in DOMAIN fs |->
        LET writes == { i \in 1..n : calls[i].call = "write" /\ calls[i].path = p }
            w == CHOOSE i \in writes : \A j \in writes : j <= i
        IN  IF writes = {} THEN fs[p]
            ELSE File(fs[p].content \o calls[w].content, calls[w].mode, calls[w].user)]

\* The file system after the first n calls: each path holds what the last
\* render_file on it wrote.
FilesAfter(fs, calls, n) ==
    [p \in DOMAIN fs |->
        LET writes == { i \in 1..n : calls[i].call = "write" /\ calls[i].path = p }
            w == CHOOSE i \in writes : \A j \in writes : j <= i
        IN  IF writes = {} THEN fs[p]
            ELSE File(calls[w].content, calls[w].mode, calls[w].user)]

\* Statements run in order and an exception ends the handler: the calls up
\* to the first that raises take effect, the rest are not made.  The result
\* is the file system (with what a render_file that raised left of its
\* file), the calls made (a render_file that raised is not listed) and the
\* exception that is propagating ("" when none is).
ExecCalls(fs, calls, fault) ==
    LET failing == { i \in 1..Len(calls) : CallFails(calls[i], fault) }
        k == IF failing = {} THEN 0 ELSE CHOOSE i \in failing : \A j \in failing : i <= j
        done == IF k = 0 THEN Len(calls) ELSE k - 1
        made == IF k # 0 /\ calls[k].call # "write" THEN k ELSE done
    IN  [files |-> IF k # 0 /\ calls[k].call = "write"
                   THEN [FilesAfter(fs, calls, done) EXCEPT
                           ![calls[k].path] = FailedWrite(@, calls[k], fault)]
                   ELSE FilesAfter(fs, calls, done),
         ops |-> [i \in 1..made |-> Op(calls[i].call, calls[i].path)],
         raised |-> IF k = 0 THEN "" ELSE ExceptionOf(calls[k], fault)]

\* Variant: the key files get the mode of the tables.
KeyWritesReadable(private_keys) ==
    [i \in 1..Len(private_keys) |->
        [call |-> "write", path |-> KeyFilePath(private_keys[i].name),
         content |-> private_keys[i].value, mode |-> ConfFileMode, user |-> OPENDKIM_USER]]

\* for keyname, keyvalue in config.private_keys.items(): render_file(...)
KeyWrites(private_keys) ==
    [i \in 1..Len(private_keys) |->
        WriteCall(KeyFilePath(private_keys[i].name), private_keys[i].value,
                  KeyFileMode, OPENDKIM_USER)]

\* The calls of _reconcile that write the key files and the two tables.
TableCalls(cfg) ==
    KeyWrites(cfg.private_keys)
    \o << WriteCall(OPENDKIM_SIGNINGTABLE_PATH, TableText(cfg.signingtable),
                    ConfFileMode, OPENDKIM_USER),
          WriteCall(OPENDKIM_KEYTABLE_PATH, TableText(cfg.keytable),
                    ConfFileMode, OPENDKIM_USER) >>

\* Variant: the service is restarted before the primary configuration is
\* written.
ServiceCallsRestartFirst(rendered, previous_rendered) ==
    (IF Drift(rendered, previous_rendered)
     THEN << SystemdCall("restart"),
             WriteCall(OPENDKIM_CONFIG_PATH, rendered, ConfFileMode, OPENDKIM_USER) >>
     ELSE <<>>)
    \o << SystemdCall("reload") >>

\* Variant: the primary configuration is written in every cycle.
ServiceCallsAlwaysWrite(rendered, previous_rendered) ==
    << WriteCall(OPENDKIM_CONFIG_PATH, rendered, ConfFileMode, OPENDKIM_USER) >>
    \o (IF Drift(rendered, previous_rendered) THEN << SystemdCall("restart") >> ELSE <<>>)
    \o << SystemdCall("reload") >>

\* if rendered != previous_rendered: render_file(...); service_restart(...)
\* and then service_reload(...)
ServiceCalls(rendered, previous_rendered) ==
    (IF Drift(rendered, previous_rendered)
     THEN << WriteCall(OPENDKIM_CONFIG_PATH, rendered, ConfFileMode, OPENDKIM_USER),
             SystemdCall("restart") >>
     ELSE <<>>)
    \o << SystemdCall("reload") >>

(***************************************************************************)
(* The result of a hook: the state it leaves and what it did.              *)
(*   outcome: InvalidConfig, WaitingForRelation, Applied (the reload was   *)
(*   issued, external validation is next), ExternalValidationFailed,       *)
(*   Converged, Installed, or Raised (an exception left the handler).      *)
(***************************************************************************)
HookResult(fs, rd, st, outcome, ops, previous_rendered, rendered, raised) ==
    [files |-> fs, relData |-> rd, status |-> st, outcome |-> outcome, ops |-> ops,
     previous_rendered |-> previous_rendered, rendered |-> rendered, raised |-> raised]

(***************************************************************************)
(* _reconcile, from its start to the reload.  The handler is written as a  *)
(* chain of operators, each taking the values computed so far.             *)
(***************************************************************************)
\* Variant: a failing restart or reload is caught and reported as Blocked.
ReconcileServiceBlocks(tables, service, previous_rendered, rendered, rd, st) ==
    [files |-> service.files, relData |-> rd,
     status |-> IF service.raised = "" THEN st ELSE [name |-> "blocked", message |-> service.raised],
     outcome |-> IF service.raised = "" THEN "Applied" ELSE "Raised",
     ops |-> tables.ops \o service.ops, previous_rendered |-> previous_rendered,
     rendered |-> rendered, raised |-> service.raised]

\* Variant: the write of the primary configuration is lost.
ReconcileServiceKeepsFiles(tables, service, previous_rendered, rendered, rd, st) ==
    HookResult(tables.files, rd, st, IF service.raised = "" THEN "Applied" ELSE "Raised",
               tables.ops \o service.ops, previous_rendered, rendered, service.raised)

\* systemd.service_restart / service_reload and what the handler has done
ReconcileService(tables, service, previous_rendered, rendered, rd, st) ==
    HookResult(service.files, rd, st, IF service.raised = "" THEN "Applied" ELSE "Raised",
               tables.ops \o service.ops, previous_rendered, rendered, service.raised)

\* previous_rendered = read_text(...); if rendered != previous_rendered: ...
ReconcileDrift(tables, previous_rendered, rendered, rd, st, fault) ==
    ReconcileService(tables,
                     ExecCalls(tables.files, ServiceCalls(rendered, previous_rendered), fault),
                     previous_rendered, rendered, rd, st)

\* the key files and the two tables are written, the template is rendered
ReconcileFiles(tables, rendered, rd, st, fault) ==
    IF tables.raised # ""
    THEN HookResult(tables.files, rd, st, "Raised", tables.ops, "", "", tables.raised)
    ELSE ReconcileDrift(tables, ReadText(tables.files, OPENDKIM_CONFIG_PATH), rendered,
                        rd, st, fault)

\* Variant: the port is published before the configuration is validated.
ReconcileConfigPortFirst(res, milter_relations, rd, fs, st, fault) ==
    IF res.kind = "raise"
    THEN HookResult(fs, rd, st, "Raised", <<>>, "", "", res.message)
    ELSE IF res.kind = "invalid"
    THEN HookResult(fs, PublishPort(rd, milter_relations), BlockedStatus(res.message),
                    "InvalidConfig", <<>>, "", "", "")
    ELSE IF NoMilterRelations(milter_relations)
    THEN HookResult(fs, rd, BlockedStatus("Missing milter relations"),
                    "WaitingForRelation", <<>>, "", "", "")
    ELSE ReconcileFiles(ExecCalls(fs, TableCalls(res.config), fault),
                        RenderTemplate(ModelDump(res.config)),
                        PublishPort(rd, milter_relations), st, fault)

\* Variant: the relation check comes before the validation.
ReconcileConfigRelationFirst(res, milter_relations, rd, fs, st, fault) ==
    IF res.kind = "raise"
    THEN HookResult(fs, rd, st, "Raised", <<>>, "", "", res.message)
    ELSE IF NoMilterRelations(milter_relations)
    THEN HookResult(fs, rd, BlockedStatus("Missing milter relations"),
                    "WaitingForRelation", <<>>, "", "", "")
    ELSE IF res.kind = "invalid"
    THEN HookResult(fs, rd, BlockedStatus(res.message), "InvalidConfig", <<>>, "", "", "")
    ELSE ReconcileFiles(ExecCalls(fs, TableCalls(res.config), fault),
                        RenderTemplate(ModelDump(res.config)),
                        PublishPort(rd, milter_relations), st, fault)

\* config = OpenDKIMConfig.from_charm(self), the relation check, the port
ReconcileConfig(res, milter_relations, rd, fs, st, fault) ==
    IF res.kind = "raise"
    THEN HookResult(fs, rd, st, "Raised", <<>>, "", "", res.message)
    ELSE IF res.kind = "invalid"
    THEN HookResult(fs, rd, BlockedStatus(res.message), "InvalidConfig", <<>>, "", "", "")
    ELSE IF NoMilterRelations(milter_relations)
    THEN HookResult(fs, rd, BlockedStatus("Missing milter relations"),
                    "WaitingForRelation", <<>>, "", "", "")
    ELSE ReconcileFiles(ExecCalls(fs, TableCalls(res.config), fault),
                        RenderTemplate(ModelDump(res.config)),
                        PublishPort(rd, milter_relations), st, fault)

ReconcileApply(config_data, secret_content, milter_relations, rd, fs, st, fault) ==
    ReconcileConfig(FromCharm(config_data, secret_content, fault = "get_secret"),
                    milter_relations, rd, fs, st, fault)

(***************************************************************************)
(* _reconcile, the external validation and the final status.               *)
(***************************************************************************)
\* except ValueError: BlockedStatus(str(exc)); otherwise ActiveStatus
ValidationStatus(applied, v, ops) ==
    IF v.raised = "ValueError"
    THEN [applied EXCEPT !.status = BlockedStatus(v.message),
                         !.outcome = "ExternalValidationFailed", !.ops = ops]
    ELSE IF v.raised # ""
    THEN [applied EXCEPT !.outcome = "Raised", !.raised = v.raised, !.ops = ops]
    ELSE [applied EXCEPT !.status = ActiveStatus, !.outcome = "Converged", !.ops = ops]

ReconcileValidate(applied, tool) ==
    IF applied.outcome # "Applied" THEN applied
    ELSE ValidationStatus(applied, ValidateOpendkim(tool),
                          Append(applied.ops, Op("validate", OPENDKIM_CONFIG_PATH)))

(***************************************************************************)
(* _install                                                                *)
(***************************************************************************)
InstallResult(x, rd) ==
    IF x.raised # ""
    THEN HookResult(x.files, rd, MaintenanceStatus("installing opendkim"), "Raised",
                    x.ops, "", "", x.raised)
    ELSE HookResult(x.files, rd, ActiveStatus, "Installed", x.ops, "", "", "")

InstallCalls(fs) ==
    << AptCall(OPENDKIM_PACKAGE_NAME),
       WriteCall(LOG_ROTATE_SYSLOG,
                 UpdateLogrotateConf(fs, LOG_ROTATE_SYSLOG, "daily", LOG_RETENTION_DAYS, TRUE),
                 ConfFileMode, "root") >>

InstallHook(fs, rd, fault) == InstallResult(ExecCalls(fs, InstallCalls(fs), fault), rd)

(***************************************************************************)
(* State.                                                                  *)
(*   config     the charm's configuration options                          *)
(*   secret     the content of the private keys secret                     *)
(*   relations  the ids of the milter relations the model lists            *)
(*   relData    the local unit databag of each relation id                 *)
(*   files      the file system                                            *)
(*   status     the unit status the charm set last                         *)
(*   last       what the most recent hook did: its handler, outcome, the   *)
(*              calls it made (ops), the primary configuration it read     *)
(*              back and rendered, the validator's result, the exception   *)
(*              that left the handler; repeat: the hook is a reconcile     *)
(*              cycle run right after a reconcile cycle with the same      *)
(*              inputs; cycle: the outcome of the most recent reconcile    *)
(*              cycle ("none" before the first)                            *)
(*   hooks      the number of hooks run so far                             *)
(*   lr         update_logrotate_conf taken alone: its arguments and the   *)
(*              texts of its successive applications (see SpecLogrotate)   *)
(***************************************************************************)
VARIABLES config, secret, relations, relData, files, status, last, hooks, lr

vars == << config, secret, relations, relData, files, status, last, hooks, lr >>

Last(handler, r, tool, repeat, cycle) ==
    [handler |-> handler, outcome |-> r.outcome, ops |-> r.ops,
     previous_rendered |-> r.previous_rendered, rendered |-> r.rendered,
     tool |-> tool, raised |-> r.raised, repeat |-> repeat, cycle |-> cycle]

NoHook == [files |-> files, relData |-> relData, status |-> status, outcome |-> "none",
           ops |-> <<>>, previous_rendered |-> "", rendered |-> "", raised |-> ""]

\* update_logrotate_conf has not been called on its own.
NoLogrotate ==
    [exists |-> FALSE, frequency |-> "", retention |-> 0, texts |-> << >>, dateext |-> << >>]

\* /etc/logrotate.d/rsyslog as shipped, and a primary configuration that is
\* not the charm's (the package's own file).
StockLogrotate == "/var/log/syslog\n{\n\trotate 4\n\tweekly\n\tmissingok\n}\n"
StockConfig == "Syslog yes\n"

\* A machine without the two files, and one where the packages put them.
InitialFiles ==
    { [p \in Paths |->
          IF p = OPENDKIM_CONFIG_PATH /\ stock THEN File(StockConfig, ConfFileMode, "root")
          ELSE IF p = LOG_ROTATE_SYSLOG /\ stock THEN File(StockLogrotate, ConfFileMode, "root")
          ELSE NoFile] : stock \in BOOLEAN }

Init ==
    /\ config = Config(OptUnset, OptUnset, "")
    /\ secret \in SecretContents
    /\ relations = {}
    /\ relData = [r \in RelationIds |-> EmptyData]
    /\ files \in InitialFiles
    /\ status = UnknownStatus
    /\ last = Last("none", NoHook, "notrun", FALSE, "none")
    /\ hooks = 0
    /\ lr = NoLogrotate

\* The same, with the secret of two keys (secret-changed brings the other
\* content).
InitFaulty ==
    /\ config = Config(OptUnset, OptUnset, "")
    /\ secret = << KeyEntry("key1", "PEM1"), KeyEntry("key2", "PEM2") >>
    /\ relations = {}
    /\ relData = [r \in RelationIds |-> EmptyData]
    /\ files \in InitialFiles
    /\ status = UnknownStatus
    /\ last = Last("none", NoHook, "notrun", FALSE, "none")
    /\ hooks = 0
    /\ lr = NoLogrotate

(***************************************************************************)
(* Hooks.  Run(...) is one execution of _reconcile on the given inputs;    *)
(* the validator's result is drawn when the cycle runs the validator.      *)
(***************************************************************************)
\* The hook's result becomes the state.
Commit(handler, r, tool, repeat, cycle) ==
    /\ hooks < MaxHooks
    /\ hooks' = hooks + 1
    /\ files' = r.files
    /\ relData' = r.relData
    /\ status' = r.status
    /\ last' = Last(handler, r, tool, repeat, cycle)
    /\ UNCHANGED lr

RunReconcile(config_data, secret_content, milter_relations, rd, fault) ==
    /\ hooks < MaxHooks
    /\ \E applied \in { ReconcileApply(config_data, secret_content, milter_relations, rd,
                                       files, status, fault) } :
           \E tool \in (IF applied.outcome = "Applied" THEN ToolResults(applied.files)
                        ELSE {"notrun"}) :
               \E r \in { ReconcileValidate(applied, tool) } :
                   Commit("reconcile", r, tool,
                          /\ last.handler = "reconcile"
                          /\ config_data = config
                          /\ secret_content = secret
                          /\ milter_relations = relations,
                          r.outcome)

RunInstall(fault) ==
    /\ hooks < MaxHooks
    /\ \E r \in { InstallHook(files, relData, fault) } :
           Commit("install", r, "notrun", FALSE, last.cycle)
    /\ UNCHANGED << config, secret, relations >>

\* A hook that raised leaves the unit in error: no other hook is dispatched
\* until that hook has been run again and has returned.
InError == last.raised # ""

\* install
Install(fault) == ~InError /\ RunInstall(fault)

\* upgrade_charm
UpgradeCharm(fault) == ~InError /\ last.handler # "none" /\ RunInstall(fault)

\* config_changed: the options are c
ConfigChanged(c, fault) ==
    /\ ~InError
    /\ config' = c
    /\ UNCHANGED << secret, relations >>
    /\ RunReconcile(c, secret, relations, relData, fault)

\* secret_changed: the secret's content is s
SecretChanged(s, fault) ==
    /\ ~InError
    /\ secret' = s
    /\ UNCHANGED << config, relations >>
    /\ RunReconcile(config, s, relations, relData, fault)

\* milter relation_joined: relation r is new
RelationJoined(r, fault) ==
    /\ ~InError
    /\ r \notin relations
    /\ relations' = relations \cup {r}
    /\ UNCHANGED << config, secret >>
    /\ RunReconcile(config, secret, relations \cup {r}, relData, fault)

\* milter relation_changed
RelationChanged(r, fault) ==
    /\ ~InError
    /\ r \in relations
    /\ UNCHANGED << config, secret, relations >>
    /\ RunReconcile(config, secret, relations, relData, fault)

\* milter relation_departed: a remote unit left, the relation is still there
RelationDeparted(r, fault) ==
    /\ ~InError
    /\ r \in relations
    /\ UNCHANGED << config, secret, relations >>
    /\ RunReconcile(config, secret, relations, relData, fault)

\* milter relation_broken: the model no longer lists relation r
RelationBroken(r, fault) ==
    /\ ~InError
    /\ r \in relations
    /\ relations' = relations \ {r}
    /\ UNCHANGED << config, secret >>
    /\ RunReconcile(config, secret, relations \ {r}, [relData EXCEPT ![r] = EmptyData], fault)

\* The hook that raised is run again: _install for install and
\* upgrade_charm, _reconcile for the others.
RetryInstall(fault) == InError /\ last.handler = "install" /\ RunInstall(fault)

RetryReconcile(fault) ==
    /\ InError
    /\ last.handler = "reconcile"
    /\ UNCHANGED << config, secret, relations >>
    /\ RunReconcile(config, secret, relations, relData, fault)

\* The collaborators (secret store, file system, package manager, service
\* manager) work; the external validator may fail or time out.
Next ==
    \/ Install("none")
    \/ UpgradeCharm("none")
    \/ \E c \in Configs : ConfigChanged(c, "none")
    \/ \E s \in SecretContents : SecretChanged(s, "none")
    \/ \E r \in RelationIds : RelationJoined(r, "none")
    \/ \E r \in RelationIds : RelationChanged(r, "none")
    \/ \E r \in RelationIds : RelationDeparted(r, "none")
    \/ \E r \in RelationIds : RelationBroken(r, "none")
    \/ RetryReconcile("none")

Spec == Init /\ [][Next]_vars

\* Any collaborator call may fail.
NextFaulty ==
    \/ \E f \in InstallFaults : Install(f)
    \/ \E f \in InstallFaults : UpgradeCharm(f)
    \/ \E c \in Configs, f \in ReconcileFaults : ConfigChanged(c, f)
    \/ \E s \in SecretContents, f \in ReconcileFaults : SecretChanged(s, f)
    \/ \E r \in RelationIds, f \in ReconcileFaults : RelationJoined(r, f)
    \/ \E r \in RelationIds, f \in ReconcileFaults : RelationChanged(r, f)
    \/ \E r \in RelationIds, f \in ReconcileFaults : RelationDeparted(r, f)
    \/ \E r \in RelationIds, f \in ReconcileFaults : RelationBroken(r, f)
    \/ \E f \in InstallFaults : RetryInstall(f)
    \/ \E f \in ReconcileFaults : RetryReconcile(f)

SpecFaulty == InitFaulty /\ [][NextFaulty]_vars

(***************************************************************************)
(* update_logrotate_conf on its own: the function is applied to a file of  *)
(* up to MaxLines lines, then to its own output, with a frequency and a    *)
(* retention that stay the same and a dateext flag chosen at each          *)
(* application.  lr.texts is the input followed by the outputs.  The lines  *)
(* are indented with tabs, spaces or a form feed, or not at all, and one    *)
(* ends with a carriage return.                                             *)
(***************************************************************************)
LogrotateLineChoices ==
    { "", "{\r", "\trotate 4", "  weekly", "\fmonthly", "\tdateext", "\tmissingok", "rotate 4" }

LogrotateInputs ==
    { Join("\n", ls) : ls \in UNION { [1..k -> LogrotateLineChoices] : k \in 0..MaxLines } }

Frequencies == {"", "daily", "weekly"}
Retentions == {0, LOG_RETENTION_DAYS}

\* The file system update_logrotate_conf reads at its next application.
LogrotateFiles(l) ==
    [p \in Paths |->
        IF p = LOG_ROTATE_SYSLOG /\ (l.exists \/ Len(l.texts) > 1)
        THEN File(l.texts[Len(l.texts)], ConfFileMode, "root")
        ELSE NoFile]

InitLogrotate ==
    /\ config = Config(OptUnset, OptUnset, "")
    /\ secret = << >>
    /\ relations = {}
    /\ relData = [r \in RelationIds |-> EmptyData]
    /\ files = [p \in Paths |-> NoFile]
    /\ status = UnknownStatus
    /\ last = Last("none", NoHook, "notrun", FALSE, "none")
    /\ hooks = 0
    /\ \E e \in BOOLEAN, t \in LogrotateInputs, f \in Frequencies, n \in Retentions :
          /\ e \/ t = ""
          /\ lr = [exists |-> e, frequency |-> f, retention |-> n,
                   texts |-> << t >>, dateext |-> << >>]

\* update_logrotate_conf(path, frequency, retention, dateext=d)
LogrotateUpdate(d) ==
    /\ Len(lr.dateext) < MaxUpdates
    /\ lr' = [lr EXCEPT
                !.texts = Append(@, UpdateLogrotateConf(LogrotateFiles(lr), LOG_ROTATE_SYSLOG,
                                                        lr.frequency, lr.retention, d)),
                !.dateext = Append(@, d)]
    /\ UNCHANGED << config, secret, relations, relData, files, status, last, hooks >>

NextLogrotate == \E d \in BOOLEAN : LogrotateUpdate(d)

SpecLogrotate == InitLogrotate /\ [][NextLogrotate]_vars

(***************************************************************************)
(* Properties.  After a reconcile hook, config, secret and relations are   *)
(* the inputs that cycle ran on and last tells what it did.                *)
(***************************************************************************)
Reconciled == last.handler = "reconcile"

\* The hook l made a call of kind op ("write", "restart", "reload", ...).
Issued(l, op) == \E i \in DOMAIN l.ops : l.ops[i].op = op

\* In hook l no reload comes before a restart.
RestartBeforeReload(l) ==
    \A i, j \in DOMAIN l.ops :
        (l.ops[i].op = "restart" /\ l.ops[j].op = "reload") => i < j

\* The option is unset, empty or not parseable.
OptionMissing(o) == o.kind \in {"unset", "empty", "badyaml"}

\* The fields of the configuration c that are invalid: a table that is
\* missing, unparseable or of the wrong shape, a missing secret reference.
InvalidFieldNames(c) ==
    { f \in {"signingtable", "keytable"} :
        \/ OptionMissing(c[f])
        \/ c[f].kind = "yaml" /\ c[f].doc.type # "list"
        \/ f = "signingtable" /\ c[f].kind = "yaml" /\ c[f].doc.type = "list"
             /\ \E k \in DOMAIN c[f].doc.rows : Len(c[f].doc.rows[k]) # 2 }
    \cup (IF c.private_keys = "" THEN {"private-keys"} ELSE {})

\* A collaborator call of the reconcile hook l raised.
CollaboratorFailed(l) ==
    /\ l.handler = "reconcile"
    /\ l.raised \in {"SecretNotFoundError", "OSError", "KeyError", "SystemdError"}

\* C1: a reconcile cycle run with a valid configuration and no milter
\* relation writes no artifact file, issues no restart and no reload, and
\* ends Blocked with "Missing milter relations" (WaitingForRelation).
C1_NoRelationNoEffect ==
    [][ (last'.handler = "reconcile" /\ config' \in ValidConfigs /\ relations' = {})
        => /\ \A p \in ArtifactPaths : files'[p] = files[p]
           /\ ~Issued(last', "write")
           /\ ~Issued(last', "restart")
           /\ ~Issued(last', "reload")
           /\ last'.outcome = "WaitingForRelation"
           /\ status' = [name |-> "blocked", message |-> "Missing milter relations"] ]_vars

C1_Witness ==
    /\ Reconciled
    /\ config \in ValidConfigs
    /\ relations = {}
    /\ last.outcome = "WaitingForRelation"
    /\ hooks > 1

\* C2: in a reconcile cycle that passes validation and the relation check,
\* the service is restarted exactly when the rendered primary configuration
\* differs from what the file held before the cycle (nothing, when absent),
\* and it is reloaded in every such cycle, after the restart if there is one.
C2_RestartIffDrift ==
    [][ (last'.handler = "reconcile" /\ config' \in ValidConfigs /\ relations' # {})
        => /\ Issued(last', "restart")
                <=> last'.rendered # (IF files[OPENDKIM_CONFIG_PATH].exists
                                      THEN files[OPENDKIM_CONFIG_PATH].content ELSE "")
           /\ Issued(last', "reload")
           /\ RestartBeforeReload(last') ]_vars

C2_Witness ==
    /\ Reconciled
    /\ config \in ValidConfigs
    /\ relations # {}
    /\ last.rendered = last.previous_rendered
    /\ Issued(last, "reload")
    /\ ~Issued(last, "restart")

\* C3: of two reconcile cycles run in a row on the same configuration,
\* secret and relations, the first restarts and reloads the service if the
\* primary configuration on disk differed, the second reloads it without a
\* restart and leaves the content of every artifact file as the first did.
C3_SecondRunOnlyReloads ==
    [][ (last'.repeat /\ config' \in ValidConfigs /\ relations' # {})
        => /\ last.rendered # last.previous_rendered
                => Issued(last, "restart") /\ Issued(last, "reload")
           /\ Issued(last', "reload")
           /\ ~Issued(last', "restart")
           /\ \A p \in ArtifactPaths :
                /\ files'[p].exists = files[p].exists
                /\ files'[p].content = files[p].content ]_vars

C3_Witness ==
    /\ last.repeat
    /\ config \in ValidConfigs
    /\ relations # {}
    /\ Issued(last, "reload")
    /\ ~Issued(last, "restart")
    /\ last.outcome = "Converged"

\* C4: when the external validator exits non-zero or runs past its timeout,
\* the cycle returns normally and ends Blocked (ExternalValidationFailed).
C4_ValidatorFailureBlocks ==
    (Reconciled /\ last.tool \in {"nonzero", "timeout"})
        => /\ last.raised = ""
           /\ last.outcome = "ExternalValidationFailed"
           /\ status.name = "blocked"

\* C5: whenever the unit status is Active, the most recent reconcile cycle
\* ended with a successful external validation.
C5_ActiveOnlyAfterValidation ==
    status.name = "active" => last.cycle = "Converged"

\* C6: when the signing table and the key table are each empty or not
\* parseable and the private-keys reference is missing, the cycle ends
\* Blocked with one message that mentions signingtable, keytable and
\* private-keys.
C6_AllFailuresMentioned ==
    (/\ Reconciled
     /\ OptionMissing(config.signingtable)
     /\ OptionMissing(config.keytable)
     /\ config.private_keys = "")
        => /\ last.outcome = "InvalidConfig"
           /\ status.name = "blocked"
           /\ Contains(status.message, "signingtable")
           /\ Contains(status.message, "keytable")
           /\ Contains(status.message, "private-keys")

C6_Witness ==
    /\ Reconciled
    /\ config.signingtable.kind = "badyaml"
    /\ config.keytable.kind = "empty"
    /\ config.private_keys = ""
    /\ status.name = "blocked"

\* C7: whatever fields of the configuration are invalid (missing, not
\* parseable or of the wrong shape), the cycle ends Blocked with a message
\* that names every one of them.
C7_EveryInvalidFieldNamed ==
    (Reconciled /\ InvalidFieldNames(config) # {})
        => /\ status.name = "blocked"
           /\ \A f \in InvalidFieldNames(config) : Contains(status.message, f)

\* C8 as stated: a reconcile cycle in which a collaborator call fails ends
\* Blocked with the failure in the status message.
C8_CollaboratorFailureBlocks ==
    CollaboratorFailed(last)
        => status.name = "blocked" /\ Contains(status.message, last.raised)

\* C8: when a collaborator call fails during a reconcile cycle (the secret
\* cannot be resolved, a file write fails, the restart or the reload fails),
\* the exception leaves the handler: no later call is made, the validator
\* is not run and the unit status stays what it was before the cycle.
C8_CollaboratorFailurePropagates ==
    [][ CollaboratorFailed(last')
        => /\ status' = status
           /\ last'.outcome = "Raised"
           /\ last'.tool = "notrun"
           /\ ~Issued(last', "validate")
           /\ last'.raised = "SecretNotFoundError"
                => last'.ops = << >> /\ files' = files
           /\ last'.raised \in {"OSError", "KeyError"}
                => ~Issued(last', "restart") /\ ~Issued(last', "reload")
           /\ last'.raised = "SystemdError"
                => /\ last'.ops[Len(last'.ops)].op \in {"restart", "reload"}
                   /\ last'.ops[Len(last'.ops)].op = "restart" => ~Issued(last', "reload") ]_vars

C8_Witness ==
    /\ CollaboratorFailed(last)
    /\ last.raised = "SystemdError"
    /\ status.name = "active"

\* C9: a reconcile cycle on a valid configuration with at least one milter
\* relation, whose validator does not fail, ends Converged with status
\* Active.
C9_ValidInputsConverge ==
    (/\ Reconciled
     /\ config \in ValidConfigs
     /\ relations # {}
     /\ last.tool \notin {"nonzero", "timeout"})
        => /\ last.outcome = "Converged"
           /\ status = [name |-> "active", message |-> ""]

C9_Witness ==
    /\ Reconciled
    /\ config \in ValidConfigs
    /\ relations = RelationIds
    /\ last.tool = "exit0"
    /\ status.name = "active"

\* C10: after a reconcile cycle that passes validation and finds a milter
\* relation, the local unit data of every relation present holds port
\* "8892", however the cycle ends afterwards.
C10_PortPublished ==
    (/\ Reconciled
     /\ config \in ValidConfigs
     /\ relations # {}
     /\ last.raised # "SecretNotFoundError")
        => \A r \in relations : relData[r].port = "8892"

C10_Witness ==
    /\ Reconciled
    /\ config \in ValidConfigs
    /\ relations = RelationIds
    /\ \A r \in relations : relData[r].port = "8892"
    /\ last.outcome = "ExternalValidationFailed"

\* The key table of configuration c refers to a key file whose name is
\* not an entry of the private key mapping s.
DanglingKeyReference(c, s) ==
    /\ c.keytable.kind = "yaml"
    /\ c.keytable.doc.type = "list"
    /\ \E k \in DOMAIN c.keytable.doc.rows, n \in KeyNames :
          /\ Len(c.keytable.doc.rows[k]) >= 2
          /\ Contains(c.keytable.doc.rows[k][2], ":" \o KeyFilePath(n))
          /\ \A i \in DOMAIN s : s[i].name # n

\* C11: a reconcile cycle whose key table refers to a key file that is not
\* an entry of the current private key mapping does not end Converged (it
\* does not set status Active).
C11_DanglingKeyNeverConverges ==
    (Reconciled /\ DanglingKeyReference(config, secret))
        => last.outcome # "Converged"

\* The option is a YAML list with at least one entry.
NonEmptyTable(o) == o.kind = "yaml" /\ o.doc.type = "list" /\ o.doc.rows # << >>

\* C12: a configuration that passes validation has a non-empty signing
\* table, a non-empty key table and a non-empty private key mapping.
C12_ValidatedConfigNonEmpty ==
    (Reconciled /\ last.outcome # "InvalidConfig")
        => /\ NonEmptyTable(config.signingtable)
           /\ NonEmptyTable(config.keytable)
           /\ secret # << >>

\* C13: after the install event has been handled, the unit status is
\* Waiting, not Active.
C13_InstallEndsWaiting ==
    (last.handler = "install" /\ last.raised = "")
        => status.name = "waiting" /\ status.name # "active"

\* C14 as stated: when the external validator fails, the text it printed
\* is part of the Blocked status message of the cycle.
C14_ValidatorDetailSurfaced ==
    (Reconciled /\ last.tool = "nonzero")
        => status.name = "blocked" /\ Contains(status.message, ToolDetail(last.tool))

\* C14: when the external validator exits non-zero, the cycle ends Blocked
\* with the fixed message "Wrong opendkim configuration. See logs"; what the
\* validator printed is not part of the message.
C14_ValidatorFailureFixedMessage ==
    (Reconciled /\ last.tool = "nonzero")
        => /\ status = [name |-> "blocked",
                        message |-> "Wrong opendkim configuration. See logs"]
           /\ ~Contains(status.message, ToolDetail(last.tool))

C14_Witness ==
    /\ Reconciled
    /\ last.tool = "nonzero"
    /\ last.outcome = "ExternalValidationFailed"
    /\ status.name = "blocked"

\* The reconcile cycle went past the relation check and the writes, up to
\* the external validator.
ReachedValidator == Reconciled /\ last.tool # "notrun"

\* The text has one line per row, in order, each the row's fields joined
\* by one space; no text at all for no row.
TableFileMatches(content, rows) ==
    IF rows = << >> THEN content = ""
    ELSE LET lines == SplitLines(content)
         IN  /\ Len(lines) = Len(rows)
             /\ \A k \in DOMAIN rows : lines[k] = Join(" ", rows[k])

\* C15: the signing table file and the key table file a cycle writes hold
\* one line per input entry, in input order, each line the entry's fields
\* joined by a single space, the lines separated by a newline.
C15_TableFilesFollowInput ==
    ReachedValidator
        => /\ files[OPENDKIM_SIGNINGTABLE_PATH].exists
           /\ files[OPENDKIM_KEYTABLE_PATH].exists
           /\ TableFileMatches(files[OPENDKIM_SIGNINGTABLE_PATH].content,
                               config.signingtable.doc.rows)
           /\ TableFileMatches(files[OPENDKIM_KEYTABLE_PATH].content,
                               config.keytable.doc.rows)

C15_Witness ==
    /\ ReachedValidator
    /\ Len(config.signingtable.doc.rows) = 2
    /\ Len(config.keytable.doc.rows) = 2
    /\ files[OPENDKIM_SIGNINGTABLE_PATH].content
         = "*@d1.com sel._domainkey.d1.com\n*@d2.com sel._domainkey.d2.com"

\* The number of writes of path p the hook l made.
WritesOf(l, p) ==
    Cardinality({ i \in DOMAIN l.ops : l.ops[i].op = "write" /\ l.ops[i].arg = p })

\* C16: a cycle that passes the relation check writes, for every entry of
\* the private key mapping, exactly one file /etc/dkimkeys/<name>.private
\* holding that key, with mode 0600 and owner opendkim; the signing table,
\* the key table and the primary configuration have mode 0644 and the same
\* owner.
C16_KeyFilesAndModes ==
    ReachedValidator
        => /\ \A i \in DOMAIN secret :
                /\ WritesOf(last, "/etc/dkimkeys/" \o secret[i].name \o ".private") = 1
                /\ files["/etc/dkimkeys/" \o secret[i].name \o ".private"]
                     = [exists |-> TRUE, content |-> secret[i].value,
                        mode |-> 384, owner |-> "opendkim"]
           /\ \A p \in {OPENDKIM_SIGNINGTABLE_PATH, OPENDKIM_KEYTABLE_PATH,
                        OPENDKIM_CONFIG_PATH} :
                /\ files[p].exists
                /\ files[p].mode = 420
                /\ files[p].owner = "opendkim"

C16_Witness ==
    /\ ReachedValidator
    /\ Len(secret) = 2
    /\ WritesOf(last, "/etc/dkimkeys/key2.private") = 1
    /\ files["/etc/dkimkeys/key2.private"].mode = 384
    /\ files[OPENDKIM_CONFIG_PATH].mode = 420

\* The artifacts of the validated configuration cfg, by path: a function
\* of cfg alone.
ArtifactsOf(cfg) ==
    [p \in { KeyFilePath(cfg.private_keys[i].name) : i \in DOMAIN cfg.private_keys }
           \cup {OPENDKIM_SIGNINGTABLE_PATH, OPENDKIM_KEYTABLE_PATH, OPENDKIM_CONFIG_PATH} |->
        IF p = OPENDKIM_SIGNINGTABLE_PATH
        THEN File(TableText(cfg.signingtable), ConfFileMode, OPENDKIM_USER)
        ELSE IF p = OPENDKIM_KEYTABLE_PATH
        THEN File(TableText(cfg.keytable), ConfFileMode, OPENDKIM_USER)
        ELSE IF p = OPENDKIM_CONFIG_PATH
        THEN File(RenderTemplate(ModelDump(cfg)), ConfFileMode, OPENDKIM_USER)
        ELSE File((CHOOSE e \in { cfg.private_keys[i] : i \in DOMAIN cfg.private_keys } :
                       KeyFilePath(e.name) = p).value,
                  KeyFileMode, OPENDKIM_USER)]

\* C17: the artifacts a cycle renders and writes (paths, contents, modes,
\* owners) are those of its validated configuration alone, whatever was on
\* disk, whatever the earlier cycles did and whichever event started the
\* cycle: the rendered primary configuration is the one of the
\* configuration, the key files and the tables are written, and every file
\* the cycle wrote is the artifact of the configuration at that path.
C17_ArtifactsDependOnConfigOnly ==
    ReachedValidator
        => LET artifacts == ArtifactsOf(FromCharm(config, secret, FALSE).config)
           IN  /\ last.rendered = artifacts[OPENDKIM_CONFIG_PATH].content
               /\ \A p \in DOMAIN artifacts :
                     /\ p # OPENDKIM_CONFIG_PATH => WritesOf(last, p) = 1
                     /\ WritesOf(last, p) > 0 => files[p] = artifacts[p]

\* A cycle, the third hook or later, that found its rendered primary
\* configuration on disk, left it alone and wrote the other artifacts.
C17_Witness ==
    /\ ReachedValidator
    /\ hooks >= 3
    /\ files[OPENDKIM_KEYTABLE_PATH].exists
    /\ WritesOf(last, OPENDKIM_CONFIG_PATH) = 0
    /\ WritesOf(last, OPENDKIM_KEYTABLE_PATH) = 1
    /\ \A p \in DOMAIN ArtifactsOf(FromCharm(config, secret, FALSE).config) :
          files[p] = ArtifactsOf(FromCharm(config, secret, FALSE).config)[p]

\* The line is an indented directive, one of kws.
IsDirective(line, kws) ==
    \E n \in 1..Len(line), kw \in kws :
        /\ \A i \in 1..n : SubSeq(line, i, i) \in Whitespace
        /\ n + Len(kw) <= Len(line)
        /\ SubSeq(line, n + 1, n + Len(kw)) = kw

\* The indentation of the line.
IndentOf(line) ==
    SubSeq(line, 1, Cardinality({ n \in 1..Len(line) :
                                    \A i \in 1..n : SubSeq(line, i, i) \in Whitespace }))

\* What a line of the file becomes with frequency f, retention n and the
\* dateext flag d.
ExpectedLines(line, f, n, d) ==
    IF f # "" /\ IsDirective(line, {"daily", "weekly", "monthly"})
    THEN << IndentOf(line) \o f >>
    ELSE IF n > 0 /\ IsDirective(line, {"rotate"})
    THEN IF d THEN << IndentOf(line) \o "dateext", IndentOf(line) \o "rotate " \o ToString(n) >>
         ELSE << IndentOf(line) \o "rotate " \o ToString(n) >>
    ELSE IF n > 0 /\ IsDirective(line, {"dateext"})
    THEN << >>
    ELSE << line >>

RECURSIVE ExpectedText(_, _, _, _)
ExpectedText(lines, f, n, d) ==
    IF lines = << >> THEN << >>
    ELSE ExpectedLines(Head(lines), f, n, d) \o ExpectedText(Tail(lines), f, n, d)

\* The lines of a text file.
TextLines(text) == SplitLines(UniversalNewlines(text))

\* The k-th application of update_logrotate_conf found no file.
NoLogrotateFile(k) == k = 1 /\ ~lr.exists

\* C18: update_logrotate_conf returns "" for a path that does not exist;
\* otherwise every indented daily/weekly/monthly line becomes the frequency,
\* every indented rotate line becomes "rotate N" (N > 0), preceded by a
\* dateext line iff dateext is enabled, every indented dateext line is
\* removed (N > 0), and every other line is kept, in order.  The lines are
\* those of the file read as text ("\r\n" and "\r" end a line as "\n"
\* does) and the result has them joined by "\n".
C18_LogrotateLines ==
    \A k \in DOMAIN lr.dateext :
        lr.texts[k + 1]
          = IF NoLogrotateFile(k) THEN ""
            ELSE Join("\n", ExpectedText(TextLines(lr.texts[k]), lr.frequency,
                                         lr.retention, lr.dateext[k]))

C18_Witness ==
    /\ lr.exists
    /\ lr.frequency = "daily"
    /\ lr.retention = 120
    /\ Len(lr.dateext) = 1
    /\ lr.dateext[1]
    /\ lr.texts = << "{\r\n  weekly\n\trotate 4",
                     "{\n  daily\n\tdateext\n\trotate 120" >>

\* C19: applied to its own output with the same frequency, retention and
\* dateext flag, update_logrotate_conf returns that output again; and with
\* a retention and dateext disabled, it returns the same text for a file
\* that was updated before with dateext enabled as for the file before that
\* update.
C19_LogrotateIdempotent ==
    \A k \in DOMAIN lr.dateext :
        k + 1 \in DOMAIN lr.dateext
          => /\ lr.dateext[k] = lr.dateext[k + 1] => lr.texts[k + 2] = lr.texts[k + 1]
             /\ (lr.dateext[k] /\ ~lr.dateext[k + 1] /\ lr.retention > 0 /\ ~NoLogrotateFile(k))
                  => lr.texts[k + 2]
                       = Join("\n", ExpectedText(TextLines(lr.texts[k]), lr.frequency,
                                                 lr.retention, FALSE))

C19_Witness ==
    /\ lr.exists
    /\ lr.retention = 120
    /\ lr.dateext = << TRUE, TRUE >>
    /\ lr.texts[1] = "\tdateext\n\trotate 4\n\tmissingok"
    /\ lr.texts[2] = "\tdateext\n\trotate 120\n\tmissingok"
    /\ lr.texts[3] = lr.texts[2]

\* The hook l wrote the primary configuration and the restart that
\* followed raised.
RestartFailedAfterWrite(l) ==
    /\ l.handler = "reconcile"
    /\ l.raised = "SystemdError"
    /\ \E i \in DOMAIN l.ops : l.ops[i] = Op("write", OPENDKIM_CONFIG_PATH)
    /\ l.ops[Len(l.ops)].op = "restart"

\* C20: once a cycle has written a changed primary configuration, no cycle
\* ends Converged for that content before the service was restarted with
\* success: when the restart raised right after the write, the next cycle
\* with the same inputs that ends Converged has issued the restart.
C20_RestartBeforeConverged ==
    [][ (/\ RestartFailedAfterWrite(last)
         /\ hooks' = hooks + 1
         /\ last'.handler = "reconcile"
         /\ last'.repeat
         /\ last'.outcome = "Converged")
        => Issued(last', "restart") ]_vars

\* C21: in a reconcile cycle every write of an artifact comes after the
\* relation check has succeeded and before the first restart or reload; no
\* artifact is written after a restart or a reload, nor during or after
\* the external validation.
C21_WritesBeforeServiceCommands ==
    Reconciled
      => /\ Issued(last, "write")
              => /\ relations # {}
                 /\ last.outcome \notin {"InvalidConfig", "WaitingForRelation"}
         /\ \A i, j \in DOMAIN last.ops :
              (/\ last.ops[i].op = "write"
               /\ last.ops[j].op \in {"restart", "reload", "validate"}) => i < j

C21_Witness ==
    /\ Reconciled
    /\ last.outcome = "Converged"
    /\ Issued(last, "restart")
    /\ Issued(last, "reload")
    /\ WritesOf(last, OPENDKIM_CONFIG_PATH) = 1
    /\ WritesOf(last, KeyFilePath("key2")) = 1

\* C22: a cycle that passes the relation check writes every key file of
\* the mapping, the signing table and the key table whatever is on disk; it
\* writes the primary configuration when the rendered content differs from
\* the previous content, and then only; with equal content the file is not
\* written and stays as it was.
C22_TablesAlwaysConfigOnDrift ==
    [][ (hooks' = hooks + 1 /\ last'.handler = "reconcile" /\ last'.tool # "notrun")
        => /\ \A i \in DOMAIN secret' : WritesOf(last', KeyFilePath(secret'[i].name)) = 1
           /\ WritesOf(last', OPENDKIM_SIGNINGTABLE_PATH) = 1
           /\ WritesOf(last', OPENDKIM_KEYTABLE_PATH) = 1
           /\ WritesOf(last', OPENDKIM_CONFIG_PATH)
                = (IF last'.rendered # last'.previous_rendered THEN 1 ELSE 0)
           /\ last'.previous_rendered = ReadText(files, OPENDKIM_CONFIG_PATH)
           /\ last'.rendered = last'.previous_rendered
                => files'[OPENDKIM_CONFIG_PATH] = files[OPENDKIM_CONFIG_PATH] ]_vars

C22_Witness ==
    /\ ReachedValidator
    /\ last.repeat
    /\ last.rendered = last.previous_rendered
    /\ WritesOf(last, OPENDKIM_CONFIG_PATH) = 0
    /\ WritesOf(last, OPENDKIM_KEYTABLE_PATH) = 1
    /\ WritesOf(last, KeyFilePath("key1")) = 1

\* C23: a reconcile cycle whose configuration is invalid changes the status
\* and nothing else: the files and the relation data stay as they were, no
\* restart, no reload and no external validation is run.  (The data of a
\* relation that relation_broken removed goes with the relation: that is
\* the event, not the cycle.)
C23_InvalidConfigNoEffect ==
    [][ (hooks' = hooks + 1 /\ last'.handler = "reconcile" /\ last'.outcome = "InvalidConfig")
        => /\ files' = files
           /\ \A r \in relations' : relData'[r] = relData[r]
           /\ \A r \in RelationIds \ relations' : relData'[r] = EmptyData
           /\ last'.ops = << >>
           /\ last'.tool = "notrun"
           /\ status'.name = "blocked" ]_vars

C23_Witness ==
    /\ Reconciled
    /\ last.outcome = "InvalidConfig"
    /\ relations # {}
    /\ files[OPENDKIM_KEYTABLE_PATH].exists
    /\ \E r \in RelationIds : relData[r] # EmptyData

\* C24: the configuration is validated before the relations are looked at:
\* an invalid configuration without any milter relation ends Blocked with
\* the configuration error, and "Missing milter relations" is reported only
\* for a configuration that validated.
C24_ValidationBeforeRelationCheck ==
    (Reconciled /\ last.raised = "")
      => /\ (FromCharm(config, secret, FALSE).kind = "invalid" /\ relations = {})
              => /\ last.outcome = "InvalidConfig"
                 /\ status = BlockedStatus(FromCharm(config, secret, FALSE).message)
                 /\ status.message # "Missing milter relations"
         /\ status.message = "Missing milter relations"
              => FromCharm(config, secret, FALSE).kind = "ok"

C24_Witness ==
    /\ Reconciled
    /\ relations = {}
    /\ config \in AllMissingConfigs \cup WrongShapeConfigs
    /\ last.outcome = "InvalidConfig"
    /\ status.name = "blocked"

\* C25: a cycle that passes the relation check reads the secret again and
\* leaves every key file of the current mapping holding the current
\* content of its key, also when an earlier cycle wrote that file with
\* other content.
C25_KeyFilesHoldCurrentSecret ==
    ReachedValidator
      => \A i \in DOMAIN secret :
            /\ files[KeyFilePath(secret[i].name)].exists
            /\ files[KeyFilePath(secret[i].name)].content = secret[i].value

\* The secret was rotated: the cycle before wrote key1 with the old content.
C25_Witness ==
    /\ ReachedValidator
    /\ last.outcome = "Converged"
    /\ secret = << KeyEntry("key1", "PEM1-rotated") >>
    /\ files[KeyFilePath("key1")].content = "PEM1-rotated"
    /\ files[KeyFilePath("key2")].exists

\* C26: after a cycle that issued the reload the primary configuration on
\* disk holds what the cycle rendered, also when the external validation
\* failed: nothing is rolled back.
C26_ConfigOnDiskIsRendered ==
    (Reconciled /\ Issued(last, "reload"))
      => /\ files[OPENDKIM_CONFIG_PATH].exists
         /\ files[OPENDKIM_CONFIG_PATH].content = last.rendered
         /\ last.outcome = "ExternalValidationFailed"
              => \A i \in DOMAIN last.ops :
                    last.ops[i].op = "write" => files[last.ops[i].arg].exists

C26_Witness ==
    /\ Reconciled
    /\ last.outcome = "ExternalValidationFailed"
    /\ Issued(last, "restart")
    /\ Issued(last, "reload")
    /\ files[OPENDKIM_CONFIG_PATH].content = last.rendered
    /\ last.previous_rendered # last.rendered

\* The key files on disk.
KeyFilesPresent == { p \in KeyFilePaths : files[p].exists }

\* C27: after a cycle that ends Converged the key files on disk are exactly
\* those of the names of the current private key mapping.
C27_KeyFilesAreTheMapping ==
    (Reconciled /\ last.outcome = "Converged")
      => KeyFilesPresent = { KeyFilePath(secret[i].name) : i \in DOMAIN secret }

====
